---- MODULE Spec2Model ----
(***************************************************************************)
(* Stream-serving runtime of the M3U stream-merger proxy: the load         *)
(* balancer (proxy/loadbalancer/instance.go), the concurrency table        *)
(* (mp4_handler.go) and the writer start of the stream coordinator         *)
(* (utils/fingerprint.go, package buffer).                                 *)
(***************************************************************************)
EXTENDS Integers, Sequences, FiniteSets, TLC

(***************************************************************************)
(* Bounds of the model.                                                    *)
(***************************************************************************)
\* largest M3U_MAX_CONCURRENCY_<index> value the environment configures
MaxCap == 2
\* largest MAX_RETRIES value the configuration draws
MaxRetriesBound == 2
\* laps explored when MAX_RETRIES = 0 (the loop itself is unbounded)
MaxLaps == 6

(***************************************************************************)
(* Program constants.                                                      *)
(***************************************************************************)
\* proxy.NewBackoffStrategy(200*time.Millisecond, 2*time.Second), in ms
BackoffInitialMs == 200
BackoffMaxMs == 2000
\* http.StatusOK
StatusOK == 200
\* default of maxConcurrency in checkConcurrency
DefaultMaxConcurrency == 1

(***************************************************************************)
(* The universe: client requests, source indexes, sub-indexes.             *)
(***************************************************************************)
Procs == {"p1", "p2"}
Sources == {"0", "1"}
Subs == {"a", "b"}

\* numeric value of a source index ("M3U_URL_<n>")
IndexNumber(index) == IF index = "0" THEN 0 ELSE 1

\* the session's key of a (source, sub) pair: index+"|"+subIndex
TestedKey(index, subIndex) == index \o "|" \o subIndex

StreamURL(index, subIndex) == "http://m3u" \o index \o "/" \o subIndex

EmptyMap == [x \in {} |-> ""]

(***************************************************************************)
(* store.StreamInfo records the slug parser knows, by slug.  Only the URLs *)
(* map (source index -> sub index -> URL) and the title matter here.       *)
(***************************************************************************)
StreamInfo(title, urls) == [Title |-> title, URLs |-> urls]

NoStream == StreamInfo("", EmptyMap)

Catalog ==
    [ch1 |-> StreamInfo("ch1", ("0" :> ("a" :> StreamURL("0", "a")))
                            @@ ("1" :> ("a" :> StreamURL("1", "a")))),
     ch2 |-> StreamInfo("ch2", ("0" :> (("a" :> StreamURL("0", "a"))
                                     @@ ("b" :> StreamURL("0", "b"))))),
     ch3 |-> StreamInfo("ch3", ("0" :> EmptyMap)
                            @@ ("1" :> ("a" :> StreamURL("1", "a")))),
     hollow |-> StreamInfo("hollow", ("0" :> EmptyMap)),
     nosrc |-> StreamInfo("nosrc", EmptyMap)]

\* slugParser.GetStreamBySlug: [err, stream]
GetStreamBySlug(slug) ==
    IF slug \in DOMAIN Catalog
    THEN [err |-> FALSE, stream |-> Catalog[slug]]
    ELSE [err |-> TRUE, stream |-> NoStream]

\* fetchBackendUrls: [err, stream]; on success the caller stores stream in
\* instance.Info
\* (variant: a channel whose sources all have an empty sub-index map passes)
fetchBackendUrlsAnySource(streamUrl) ==
    LET got == GetStreamBySlug(streamUrl)
        urls == got.stream.URLs
    IN  IF got.err THEN [err |-> TRUE, stream |-> NoStream]
        ELSE IF Cardinality(DOMAIN urls) = 0
             THEN [err |-> TRUE, stream |-> NoStream]
        ELSE [err |-> FALSE, stream |-> got.stream]

fetchBackendUrls(streamUrl) ==
    LET got == GetStreamBySlug(streamUrl)
        urls == got.stream.URLs
    IN  IF got.err THEN [err |-> TRUE, stream |-> NoStream]
        ELSE IF Cardinality(DOMAIN urls) = 0
             THEN [err |-> TRUE, stream |-> NoStream]
        ELSE IF ~(\E index \in DOMAIN urls :
                      Cardinality(DOMAIN urls[index]) > 0)
             THEN [err |-> TRUE, stream |-> NoStream]
        ELSE [err |-> FALSE, stream |-> got.stream]

(***************************************************************************)
(* Requests.  req.URL.Path is kept as <<directory, stem, extension>> of    *)
(* its last element; strings.Split(path.Base(p), ".")[0] is the stem.      *)
(***************************************************************************)
Request(method, stem) ==
    [Method |-> method, Path |-> <<"/stream/", stem, ".m3u8">>]

StreamUrlOf(req) == req.Path[2]

Methods == {"GET", "G T", ""}
Stems == {"ch1", "ch2", "ch3", "hollow", "nosrc", "gone", ""}
Requests == {Request(m, s) : m \in Methods, s \in Stems}

\* http.NewRequestWithContext fails on a method that is no valid token
NewRequestFails(method, url) == method = "G T"

(***************************************************************************)
(* Concurrency table (per source index) and its configuration.             *)
(***************************************************************************)
\* values of M3U_MAX_CONCURRENCY_<index>: exists = os.LookupEnv's second
\* result, raw = the text
EnvUnset == [exists |-> FALSE, raw |-> ""]
EnvValue(raw) == [exists |-> TRUE, raw |-> raw]
Numerals == <<"1", "2", "3", "4">>
EnvChoices == {EnvUnset} \cup {EnvValue(Numerals[n]) : n \in 2..MaxCap}

\* strconv.Atoi on the texts the environment holds: [err, n]
Atoi(raw) ==
    IF \E n \in DOMAIN Numerals : Numerals[n] = raw
    THEN [err |-> FALSE,
          n |-> CHOOSE n \in DOMAIN Numerals : Numerals[n] = raw]
    ELSE [err |-> TRUE, n |-> 0]

\* the cap of checkConcurrency: 1 unless the variable parses
MaxConcurrencyOf(e) ==
    IF e.exists
    THEN (IF Atoi(e.raw).err THEN DefaultMaxConcurrency ELSE Atoi(e.raw).n)
    ELSE DefaultMaxConcurrency


(***************************************************************************)
(* State.                                                                  *)
(***************************************************************************)
VARIABLES
    env,          \* M3U_MAX_CONCURRENCY_<index>, by source index
    maxRetries,   \* instance.config.MaxRetries
    provided,     \* what indexProvider.GetM3UIndexes() returns
    count,        \* the concurrency table: source index -> connections
    state,        \* the coordinators' state, by stream id
    inbox,        \* the request each client sends
    pc,           \* where each client's request is
    bal,          \* the locals and fields of each Balance call
    session,      \* session.TestedIndexes of each client's session
    ctxDone,      \* whether each request's context is cancelled
    obs,          \* observations of each Balance call (history)
    others,       \* connections of coordinators outside the model, by source
    probe,        \* a BackoffStrategy driven on its own
    hls,          \* one coordinator's HLS writer: locals, header gate, buffer
    up,           \* the upstream of that writer: the manifest it serves
    hobs,         \* observations of the HLS writer (history)
    mp4,          \* one mp4Handler request and its copy goroutine
    sorter,       \* the sorting manager: its caches and its directory
    slug          \* one stream put through EncodeSlug and DecodeSlug

vars == <<env, maxRetries, provided, count, state, inbox, pc, bal, session,
          ctxDone, obs, others, probe, hls, up, hobs, mp4, sorter, slug>>

config == <<env, maxRetries, provided, inbox>>

\* what runs apart from the requests: the playlist sorter, the slug codec
tools == <<sorter, slug>>

\* the HLS writer, its upstream and the mp4 handler
media == <<hls, up, hobs, mp4>>

(***************************************************************************)
(* proxy.BackoffStrategy.                                                  *)
(***************************************************************************)
Min(a, b) == IF a < b THEN a ELSE b

NewBackoffStrategy(initial, max) ==
    [initial |-> initial, max |-> max, current |-> initial]

\* Next(): the current delay, and the strategy with the delay doubled up to
\* the ceiling
BackoffNext(b) ==
    [delay |-> b.current,
     strategy |-> [b EXCEPT !.current = Min(b.current * 2, b.max)]]

BackoffReset(b) == [b EXCEPT !.current = b.initial]

(***************************************************************************)
(* Concurrency manager.                                                    *)
(***************************************************************************)
MaxConcurrency(index) == MaxConcurrencyOf(env[index])

\* checkConcurrency: TRUE iff the source is at its cap
CheckConcurrency(index) == count[index] >= MaxConcurrency(index)

\* updateConcurrency: the table after +1 / -1 (the count never goes below 0)
UpdateConcurrency(table, index, incr) ==
    IF incr
    THEN [table EXCEPT ![index] = @ + 1]
    ELSE [table EXCEPT ![index] = IF @ > 0 THEN @ - 1 ELSE 0]

\* ConcurrencyPriorityValue: the headroom of the source
ConcurrencyPriorityValue(index) == MaxConcurrency(index) - count[index]

(***************************************************************************)
(* sort.Slice(m3uIndexes, priority(i) > priority(j)).  Lists this short    *)
(* are sorted by insertion: an element moves left while the comparison     *)
(* says it is less than its left neighbour.                                *)
(***************************************************************************)
\* (variant: the comparison is the wrong way round)
PriorityLessAscending(a, b) ==
    ConcurrencyPriorityValue(a) < ConcurrencyPriorityValue(b)

\* less(a, b) of the comparison function
PriorityLess(a, b) == ConcurrencyPriorityValue(a) > ConcurrencyPriorityValue(b)

RECURSIVE SinkDown(_, _)
SinkDown(data, j) ==
    IF j > 1 /\ PriorityLess(data[j], data[j - 1])
    THEN SinkDown([data EXCEPT ![j] = data[j - 1], ![j - 1] = data[j]], j - 1)
    ELSE data

RECURSIVE InsertionSortFrom(_, _)
InsertionSortFrom(data, i) ==
    IF i > Len(data) THEN data
    ELSE InsertionSortFrom(SinkDown(data, i), i + 1)

SortSlice(s) == InsertionSortFrom(s, 2)

(***************************************************************************)
(* Values of a Balance call.                                               *)
(***************************************************************************)
NilResponse == [StatusCode |-> 0]
NilResult == [Response |-> NilResponse, URL |-> "", Index |-> "", SubIndex |-> ""]

ErrNilContext == "context cannot be nil"
ErrNilSession == "session cannot be nil"
ErrNilRequest == "req cannot be nil"
ErrNoMethod == "method cannot be empty"
ErrInvalidID == "invalid ID for request"
ErrFetchingSources == "error fetching sources"
ErrCancelling == "cancelling load balancer"
ErrExhausted == "error fetching stream: exhausted all streams"

\* what httpClient.Do can answer: a transport error, a nil response, or a
\* response with a status; a request whose context is cancelled fails
HTTPOutcomes(cancelled) ==
    IF cancelled
    THEN {[err |-> TRUE, nilResp |-> TRUE, StatusCode |-> 0]}
    ELSE {[err |-> TRUE, nilResp |-> TRUE, StatusCode |-> 0],
          [err |-> FALSE, nilResp |-> TRUE, StatusCode |-> 0],
          [err |-> FALSE, nilResp |-> FALSE, StatusCode |-> 500],
          [err |-> FALSE, nilResp |-> FALSE, StatusCode |-> StatusOK]}

InitBal ==
    [Info |-> NoStream, lap |-> 0,
     backoff |-> NewBackoffStrategy(BackoffInitialMs, BackoffMaxMs),
     m3uIndexes |-> <<>>, pos |-> 0, todo |-> {},
     index |-> "", subIndex |-> "", url |-> "", timer |-> 0,
     result |-> NilResult, err |-> ""]

NoPriority == [index \in Sources |-> 0]

InitObs ==
    [laps |-> 0, requested |-> {}, attempts |-> 0, skipped |-> {},
     capped |-> {}, failed |-> {}, failedPrev |-> {}, visited |-> <<>>,
     priority |-> NoPriority, waits |-> <<>>,
     cancelledInLap |-> FALSE, cancelLap |-> 0, lateRequests |-> 0,
     unclosed |-> 0]


(***************************************************************************)
(* Balance (instance.go:83-136) and its helpers, one action per stretch of *)
(* code between two accesses to shared state.                              *)
(***************************************************************************)
\* Counters of a loop that never ends by itself (MaxRetries = 0) are followed
\* up to a bound and stay there; a bounded loop ends before reaching it.
UpTo(n, bound) == IF n < bound THEN n ELSE bound

\* (variant: the loop runs one lap too many)
LoopConditionInclusive(lap, retries) == lap <= retries \/ retries = 0

\* the loop condition of Balance
LoopCondition(lap, retries) == lap < retries \/ retries = 0

\* (variant: the context is never looked at)
CtxNeverDone(p) == FALSE

\* <-ctx.Done() is ready
CtxDone(p) == ctxDone[p]

\* (variant: the check of the tested pairs is missing)
AlreadyTestedNever(tested, index, subIndex) == FALSE

\* slices.Contains(session.TestedIndexes, index+"|"+subIndex)
AlreadyTested(tested, index, subIndex) ==
    \E i \in DOMAIN tested : tested[i] = TestedKey(index, subIndex)

\* (variant: a failed pair is not recorded)
MarkTestedDropped(tested, index, subIndex) == tested

\* (variant: the source is marked, not the pair)
MarkTestedSource(tested, index, subIndex) == Append(tested, index)

\* session.TestedIndexes = append(session.TestedIndexes, index+"|"+subIndex)
MarkTested(tested, index, subIndex) ==
    Append(tested, TestedKey(index, subIndex))

\* (variant: the session is not cleared between laps)
SetTestedIndexesKept(tested) == tested

\* session.SetTestedIndexes([]string{})
SetTestedIndexesEmpty(tested) == <<>>

\* (variant: a new strategy is created in every lap)
WaitAfterLapFresh(backoff) ==
    BackoffNext(NewBackoffStrategy(BackoffInitialMs, BackoffMaxMs))

\* backoff.Next() of the strategy created before the loop
WaitAfterLap(backoff) == BackoffNext(backoff)

\* Balance returns (nil, err)
ReturnError(p, e) ==
    /\ bal' = [bal EXCEPT ![p].err = e, ![p].result = NilResult]
    /\ pc' = [pc EXCEPT ![p] = "returned"]

\* tryAllStreams failed with an error other than context.Canceled: Balance
\* clears the session and arms the backoff timer
LapFailed(p, o) ==
    LET n == WaitAfterLap(bal[p].backoff)
    IN  /\ session' = [session EXCEPT ![p] = SetTestedIndexesEmpty(@)]
        /\ bal' = [bal EXCEPT ![p].timer = n.delay, ![p].backoff = n.strategy]
        /\ pc' = [pc EXCEPT ![p] = "wait"]
        /\ obs' = [obs EXCEPT ![p] = o]

\* Balance up to the loop: argument checks, the stream id, fetchBackendUrls,
\* the backoff strategy
BalanceCall(p) ==
    /\ pc[p] = "balance"
    /\ \E nilArg \in {"", ErrNilContext, ErrNilSession, ErrNilRequest} :
        LET req == inbox[p]
            streamUrl == StreamUrlOf(req)
            fetched == fetchBackendUrls(streamUrl)
        IN  IF nilArg # "" THEN ReturnError(p, nilArg)
            ELSE IF req.Method = "" THEN ReturnError(p, ErrNoMethod)
            ELSE IF streamUrl = "" THEN ReturnError(p, ErrInvalidID)
            ELSE IF fetched.err THEN ReturnError(p, ErrFetchingSources)
            ELSE /\ bal' = [bal EXCEPT
                       ![p].Info = fetched.stream,
                       ![p].backoff =
                           NewBackoffStrategy(BackoffInitialMs, BackoffMaxMs),
                       ![p].lap = 0]
                 /\ pc' = [pc EXCEPT ![p] = "loop"]
    /\ UNCHANGED <<config, tools, media, count, state, session, ctxDone, obs, others, probe>>

\* the head of one loop iteration: the loop condition, then tryAllStreams up
\* to its first source (GetM3UIndexes, sort.Slice, the select on ctx.Done())
LapStart(p) ==
    /\ pc[p] = "loop"
    /\ LET b == bal[p]
           o == [obs[p] EXCEPT !.laps = UpTo(@ + 1, MaxLaps + 1),
                     !.requested = {},
                     !.attempts = 0, !.skipped = {}, !.capped = {},
                     !.failedPrev = obs[p].failed,
                     !.failed = {}, !.visited = <<>>,
                     !.priority = [index \in Sources |->
                                      ConcurrencyPriorityValue(index)]]
       IN  IF ~LoopCondition(b.lap, maxRetries)
           THEN /\ ReturnError(p, ErrExhausted)
                /\ UNCHANGED <<session, obs>>
           ELSE IF Len(provided) = 0
           THEN LapFailed(p, o)
           ELSE LET sorted == SortSlice(provided)
                IN IF CtxDone(p)
                  THEN /\ ReturnError(p, ErrCancelling)
                       /\ obs' = [obs EXCEPT ![p] = o]
                       /\ UNCHANGED session
                  ELSE /\ bal' = [bal EXCEPT ![p].m3uIndexes = sorted,
                                             ![p].pos = 1]
                       /\ pc' = [pc EXCEPT ![p] = "source"]
                       /\ obs' = [obs EXCEPT ![p] = o]
                       /\ UNCHANGED session
    /\ UNCHANGED <<config, tools, media, count, state, ctxDone, others, probe>>

\* one iteration of the loop over m3uIndexes in tryAllStreams
NextSource(p) ==
    /\ pc[p] = "source"
    /\ LET b == bal[p]
           o == obs[p]
       IN  IF b.pos > Len(b.m3uIndexes)
           THEN LapFailed(p, o)
           ELSE LET index == b.m3uIndexes[b.pos]
                IN  IF index \notin DOMAIN b.Info.URLs
                    THEN /\ bal' = [bal EXCEPT ![p].pos = @ + 1]
                         /\ UNCHANGED <<pc, session, obs>>
                    ELSE /\ bal' = [bal EXCEPT ![p].index = index,
                                    ![p].todo = DOMAIN b.Info.URLs[index]]
                         /\ pc' = [pc EXCEPT ![p] = "urls"]
                         /\ obs' = [obs EXCEPT ![p].visited = Append(@, index)]
                         /\ UNCHANGED session
    /\ UNCHANGED <<config, tools, media, count, state, ctxDone, others, probe>>

\* one iteration of the loop over the sub-index map in tryStreamUrls, up to
\* httpClient.Do; a Go map is ranged over in no fixed order
TryUrl(p) ==
    /\ pc[p] = "urls"
    /\ LET b == bal[p]
           o == obs[p]
       IN  IF b.todo = {}
           THEN /\ bal' = [bal EXCEPT ![p].pos = @ + 1]
                /\ pc' = [pc EXCEPT ![p] = "source"]
                /\ UNCHANGED <<session, obs>>
           ELSE \E subIndex \in b.todo :
                LET url == b.Info.URLs[b.index][subIndex]
                    key == TestedKey(b.index, subIndex)
                    rest == [b EXCEPT !.todo = @ \ {subIndex}]
                    late == ctxDone[p]
                            /\ ~(o.cancelledInLap /\ o.cancelLap = b.lap)
                IN  IF AlreadyTested(session[p], b.index, subIndex)
                    THEN /\ bal' = [bal EXCEPT ![p] = rest]
                         /\ obs' = [obs EXCEPT ![p].skipped = @ \cup {key}]
                         /\ UNCHANGED <<pc, session>>
                    ELSE IF CheckConcurrency(b.index)
                    THEN /\ bal' = [bal EXCEPT ![p] = rest]
                         /\ obs' = [obs EXCEPT ![p].capped = @ \cup {key}]
                         /\ UNCHANGED <<pc, session>>
                    ELSE IF NewRequestFails(inbox[p].Method, url)
                    THEN /\ bal' = [bal EXCEPT ![p] = rest]
                         /\ session' = [session EXCEPT ![p] =
                                MarkTested(@, b.index, subIndex)]
                         /\ obs' = [obs EXCEPT ![p].failed = @ \cup {key}]
                         /\ UNCHANGED pc
                    ELSE /\ bal' = [bal EXCEPT ![p] =
                                [rest EXCEPT !.subIndex = subIndex,
                                             !.url = url]]
                         /\ pc' = [pc EXCEPT ![p] = "do"]
                         /\ obs' = [obs EXCEPT
                                ![p].requested = @ \cup {key},
                                ![p].attempts = @ + 1,
                                ![p].lateRequests =
                                    IF late THEN @ + 1 ELSE @]
                         /\ UNCHANGED session
    /\ UNCHANGED <<config, tools, media, count, state, ctxDone, others, probe>>

\* httpClient.Do returns, and tryStreamUrls deals with the answer
DoReturn(p) ==
    /\ pc[p] = "do"
    /\ \E answer \in HTTPOutcomes(ctxDone[p]) :
        LET b == bal[p]
        IN  IF answer.err \/ answer.nilResp \/ answer.StatusCode # StatusOK
            THEN /\ session' = [session EXCEPT ![p] =
                        MarkTested(@, b.index, b.subIndex)]
                 /\ obs' = [obs EXCEPT
                        ![p].failed = @ \cup {TestedKey(b.index, b.subIndex)},
                        ![p].unclosed =
                            IF ~answer.err /\ ~answer.nilResp
                            THEN UpTo(@ + 1, 1) ELSE @]
                 /\ pc' = [pc EXCEPT ![p] = "urls"]
                 /\ UNCHANGED bal
            ELSE /\ bal' = [bal EXCEPT ![p].result =
                        [Response |-> [StatusCode |-> answer.StatusCode],
                         URL |-> b.url, Index |-> b.index,
                         SubIndex |-> b.subIndex],
                        ![p].err = ""]
                 /\ pc' = [pc EXCEPT ![p] = "returned"]
                 /\ UNCHANGED <<session, obs>>
    /\ UNCHANGED <<config, tools, media, count, state, ctxDone, others, probe>>

\* the select after a failed lap: the backoff timer fires
WaitElapsed(p) ==
    /\ pc[p] = "wait"
    /\ bal' = [bal EXCEPT ![p].lap = UpTo(@ + 1, MaxLaps)]
    /\ pc' = [pc EXCEPT ![p] = "loop"]
    /\ obs' = [obs EXCEPT ![p].waits =
           IF Len(@) < MaxLaps THEN Append(@, bal[p].timer) ELSE @]
    /\ UNCHANGED <<config, tools, media, count, state, session, ctxDone, others, probe>>

\* the select after a failed lap: the context is done
WaitCancelled(p) ==
    /\ pc[p] = "wait"
    /\ CtxDone(p)
    /\ ReturnError(p, ErrCancelling)
    /\ UNCHANGED <<config, tools, media, count, state, session, ctxDone, obs, others, probe>>

\* the client goes away: the request's context is cancelled
Cancel(p) ==
    /\ pc[p] \in {"balance", "loop", "source", "urls", "do", "wait"}
    /\ ~ctxDone[p]
    /\ ctxDone' = [ctxDone EXCEPT ![p] = TRUE]
    /\ obs' = [obs EXCEPT
           ![p].cancelledInLap = pc[p] \in {"source", "urls", "do"},
           ![p].cancelLap = bal[p].lap]
    /\ UNCHANGED <<config, tools, media, count, state, pc, bal, session, others, probe>>


(***************************************************************************)
(* The coordinator of a stream id and the writer it runs.                  *)
(***************************************************************************)
StreamID(p) == StreamUrlOf(inbox[p])

\* (variant: every request becomes a writer)
ArriveUnlocked(p) ==
    /\ pc[p] = "new"
    /\ state' = [state EXCEPT ![StreamID(p)] = "Active"]
    /\ pc' = [pc EXCEPT ![p] = "balance"]
    /\ UNCHANGED <<config, tools, media, count, bal, session, ctxDone, obs, others, probe>>

\* a request reaches the coordinator of its stream: under the coordinator's
\* write lock it becomes the writer if none runs, else a reader
Arrive(p) ==
    /\ pc[p] = "new"
    /\ IF state[StreamID(p)] = "Idle"
       THEN /\ state' = [state EXCEPT ![StreamID(p)] = "Active"]
            /\ pc' = [pc EXCEPT ![p] = "balance"]
       ELSE /\ pc' = [pc EXCEPT ![p] = "reader"]
            /\ UNCHANGED state
    /\ UNCHANGED <<config, tools, media, count, bal, session, ctxDone, obs, others, probe>>

\* a reader has seen the stream end, or its client went away
ReaderLeave(p) ==
    /\ pc[p] = "reader"
    /\ pc' = [pc EXCEPT ![p] = "gone"]
    /\ UNCHANGED <<config, tools, media, count, state, bal, session, ctxDone, obs, others,
                   probe>>

\* Balance failed: no writer starts and the coordinator is free again
BalanceFailed(p) ==
    /\ pc[p] = "returned"
    /\ bal[p].err # ""
    /\ state' = [state EXCEPT ![StreamID(p)] = "Idle"]
    /\ pc' = [pc EXCEPT ![p] = "failed"]
    /\ UNCHANGED <<config, tools, media, count, bal, session, ctxDone, obs, others, probe>>

\* StartHLSWriter up to its loop (fingerprint.go:73-80): the writer takes a
\* slot of the source it was given
StartHLSWriter(p) ==
    /\ pc[p] = "returned"
    /\ bal[p].err = ""
    /\ count' = UpdateConcurrency(count, bal[p].result.Index, TRUE)
    /\ pc' = [pc EXCEPT ![p] = "writer"]
    /\ UNCHANGED <<config, tools, media, state, bal, session, ctxDone, obs, others, probe>>

\* StartHLSWriter returns: the deferred UpdateConcurrency(index, false)
WriterExit(p) ==
    /\ pc[p] = "writer"
    /\ count' = UpdateConcurrency(count, bal[p].result.Index, FALSE)
    /\ state' = [state EXCEPT ![StreamID(p)] = "Draining"]
    /\ pc' = [pc EXCEPT ![p] = "exited"]
    /\ UNCHANGED <<config, tools, media, bal, session, ctxDone, obs, others, probe>>

\* every reader has seen the terminal chunk: the coordinator resets
Drained(id) ==
    /\ state[id] = "Draining"
    /\ ~(\E p \in Procs : pc[p] = "reader" /\ StreamID(p) = id)
    /\ state' = [state EXCEPT ![id] = "Idle"]
    /\ UNCHANGED <<config, tools, media, count, pc, bal, session, ctxDone, obs, others,
                   probe>>

(***************************************************************************)
(* A backoff strategy on its own: Next() and Reset().                      *)
(***************************************************************************)
InitProbe ==
    [strategy |-> NewBackoffStrategy(BackoffInitialMs, BackoffMaxMs),
     delays |-> <<>>, resets |-> 0]

ProbeNext ==
    /\ Len(probe.delays) < MaxLaps
    /\ probe' = [probe EXCEPT
           !.strategy = BackoffNext(probe.strategy).strategy,
           !.delays = Append(@, BackoffNext(probe.strategy).delay)]
    /\ UNCHANGED <<config, tools, media, count, state, pc, bal, session, ctxDone, obs,
                   others>>

ProbeReset ==
    /\ probe.resets < MaxRetriesBound
    /\ probe' = [probe EXCEPT !.strategy = BackoffReset(probe.strategy),
                              !.delays = <<>>, !.resets = @ + 1]
    /\ UNCHANGED <<config, tools, media, count, state, pc, bal, session, ctxDone, obs,
                   others>>

(***************************************************************************)
(* The HLS writer (utils/fingerprint.go, package buffer): manifests, the   *)
(* playlist parser, the poll loop of StartHLSWriter, processSegments and   *)
(* streamSegment.  Time is counted in whole seconds.                       *)
(***************************************************************************)
\* c.config.TimeoutSeconds
TimeoutSeconds == 1
\* the longest a segment takes to fetch and relay
MaxSegmentSeconds == 2
\* the largest EXT-X-TARGETDURATION an upstream announces
SlowTargetDuration == 4
\* slots of the shared buffer
BufferSlots == 4
\* how many polls and writer runs are followed
MaxPolls == 2
MaxRuns == 2

InitialPollSeconds == 1
InitialMediaSeq == -1
DefaultTargetDuration == 2

MaxPollSeconds == SlowTargetDuration \div 2
MaxSince == TimeoutSeconds + MaxPollSeconds + 1

StatusEOF == "EOF"
StatusServerError == "ServerError"
StatusClientClosed == "ClientClosed"

\* one line of a manifest, after strings.TrimSpace: its tag (or "uri" for a
\* line that does not start with "#"), the number and the URI it carries
Line(tag, num, uri) == [tag |-> tag, num |-> num, uri |-> uri]

ManifestURL == "http://m3u0/a"
BaseOf(mediaURL) == "http://m3u0/"
AbsoluteURIs == {"http://cdn/v1.m3u8"}
InvalidURIs == {"%zz"}

\* what the upstream can serve at the manifest URL
Manifests ==
    [seq10 |-> <<Line("#EXTM3U", 0, ""),
                 Line("#EXT-X-VERSION:", 3, ""),
                 Line("#EXT-X-TARGETDURATION:", SlowTargetDuration, ""),
                 Line("#EXT-X-MEDIA-SEQUENCE:", 10, ""),
                 Line("uri", 0, "S1.ts"), Line("uri", 0, "S2.ts"),
                 Line("uri", 0, "S3.ts")>>,
     seq11 |-> <<Line("#EXTM3U", 0, ""),
                 Line("#EXT-X-TARGETDURATION:", SlowTargetDuration, ""),
                 Line("#EXT-X-MEDIA-SEQUENCE:", 11, ""),
                 Line("uri", 0, "S2.ts"), Line("uri", 0, "S3.ts"),
                 Line("uri", 0, "S4.ts")>>,
     ended |-> <<Line("#EXTM3U", 0, ""),
                 Line("#EXT-X-MEDIA-SEQUENCE:", 12, ""),
                 Line("", 0, ""),
                 Line("uri", 0, "%zz"),
                 Line("uri", 0, "S4.ts"),
                 Line("#EXT-X-ENDLIST", 0, "")>>,
     master |-> <<Line("#EXTM3U", 0, ""),
                  Line("#EXT-X-STREAM-INF", 0, ""),
                  Line("uri", 0, "http://cdn/v1.m3u8")>>,
     empty |-> <<Line("#EXTM3U", 0, ""),
                 Line("#EXT-X-MEDIA-SEQUENCE:", 10, "")>>,
     broken |-> <<Line("#EXTM3U", 0, ""), Line("#TOOLONG", 0, "")>>]

ManifestNames == DOMAIN Manifests

\* the playlist that follows a playlist at the upstream
Successor(name) ==
    IF name = "seq10" THEN "seq11"
    ELSE IF name = "seq11" THEN "ended" ELSE name

NewPlaylistMetadata ==
    [TargetDuration |-> DefaultTargetDuration, MediaSequence |-> 0,
     Version |-> 0, IsEndlist |-> FALSE, Segments |-> <<>>,
     IsMaster |-> FALSE]

\* url.Parse, IsAbs and base.ResolveReference of a segment line
ResolveReference(base, uri) ==
    IF uri \in AbsoluteURIs THEN uri ELSE base \o uri

\* the switch of parsePlaylist on one line
ScanLine(base, line, metadata) ==
    IF line.tag = "#EXTM3U" THEN metadata
    ELSE IF line.tag = "#EXT-X-STREAM-INF" THEN metadata
    ELSE IF line.tag = "#EXT-X-VERSION:"
    THEN [metadata EXCEPT !.Version = line.num]
    ELSE IF line.tag = "#EXT-X-TARGETDURATION:"
    THEN [metadata EXCEPT !.TargetDuration = line.num]
    ELSE IF line.tag = "#EXT-X-MEDIA-SEQUENCE:"
    THEN [metadata EXCEPT !.MediaSequence = line.num]
    ELSE IF line.tag = "#EXT-X-ENDLIST"
    THEN [metadata EXCEPT !.IsEndlist = TRUE]
    ELSE IF line.tag = "uri"
    THEN IF line.uri \in InvalidURIs
         THEN metadata
         ELSE [metadata EXCEPT !.Segments =
                   Append(@, ResolveReference(base, line.uri))]
    ELSE metadata

RECURSIVE ScanLines(_, _, _)
ScanLines(base, lines, metadata) ==
    IF lines = <<>> THEN metadata
    ELSE ScanLines(base, Tail(lines), ScanLine(base, Head(lines), metadata))

\* scanner.Err(): a line longer than the scanner's buffer
ScannerErr(content) ==
    \E i \in DOMAIN content : content[i].tag = "#TOOLONG"

\* parsePlaylist: the metadata and whether an error is returned
parsePlaylist(mediaURL, content) ==
    [metadata |-> ScanLines(BaseOf(mediaURL), content, NewPlaylistMetadata),
     err |-> ScannerErr(content)]

\* the new poll interval of StartHLSWriter for a target duration: half of
\* it; the jitter of a tenth stays below one second, so the interval
\* changes exactly when the half differs from it
AdaptPollInterval(pollInterval, targetDuration) ==
    IF targetDuration > 0 /\ targetDuration \div 2 # pollInterval
       /\ targetDuration \div 2 > 0
    THEN targetDuration \div 2
    ELSE pollInterval

\* a chunk of the shared buffer: bytes of a segment, or a terminal status
DataChunk(segment) == [data |-> segment, status |-> ""]
ErrorChunk(status) == [data |-> "", status |-> status]

\* headers of a segment response, by name
SegmentHeaders ==
    {("Content-Length" :> "188"),
     ("Content-Type" :> "video/mp4") @@ ("Content-Length" :> "188")}

HeaderGet(header, name) == IF name \in DOMAIN header THEN header[name] ELSE ""
HeaderSet(header, name, value) ==
    [n \in DOMAIN header \cup {name} |->
        IF n = name THEN value ELSE header[n]]
HeaderDel(header, name) == [n \in DOMAIN header \ {name} |-> header[n]]

\* the writer before its first run
InitHLS ==
    [pc |-> "idle", state |-> "Idle", ctxDone |-> FALSE,
     LBResultOnWrite |-> NilResult, lbResult |-> NilResult,
     body |-> <<>>, live |-> FALSE,
     WriterRespHeader |-> <<>>, respHeaderSet |-> "open",
     m3uHeaderSet |-> FALSE,
     lastErr |-> FALSE, since |-> 0, phase |-> 0,
     lastMediaSeq |-> InitialMediaSeq, pollInterval |-> InitialPollSeconds,
     segments |-> <<>>, pos |-> 0, endlist |-> FALSE,
     buffer |-> <<>>]

InitUp == [manifest |-> "seq10"]

InitHObs ==
    [run |-> 0, began |-> <<>>, polls |-> 0, beat |-> 0, parsed |-> <<>>,
     served |-> <<>>,
     fetched |-> <<>>,
     writes |-> 0, stores |-> 0, closes |-> 0, writesAtStore |-> 0,
     terminals |-> 0, afterTerminal |-> 0, status |-> "",
     cancelledAt |-> ""]

\* the writer (h) and what was observed of it (o), handed through a step
Pair(h, o) == [h |-> h, o |-> o]

\* the shared buffer keeps its newest BufferSlots chunks
RingAppend(buffer, chunk) ==
    IF Len(buffer) < BufferSlots THEN Append(buffer, chunk)
    ELSE Append(Tail(buffer), chunk)

\* c.Write(chunk)
Write(s, chunk) ==
    Pair([s.h EXCEPT !.buffer = RingAppend(@, chunk)],
         [s.o EXCEPT !.writes = UpTo(@ + 1, BufferSlots + 1),
                     !.afterTerminal =
                         IF s.o.terminals > 0 THEN UpTo(@ + 1, 1) ELSE @])

\* c.writeError(err, status): publishes a terminal chunk
writeError(s, status) ==
    LET w == Write(s, ErrorChunk(status))
    IN  Pair(w.h, [w.o EXCEPT !.terminals = UpTo(@ + 1, 2),
                              !.status = status])

\* time passes: d seconds
Elapse(s, d) ==
    Pair([s.h EXCEPT !.since = UpTo(@ + d, MaxSince),
                     !.phase = UpTo(@ + d, MaxPollSeconds)],
         s.o)

\* (variant: the header is stored for every segment)
HeaderOnceAlways(m3uHeaderSet) == TRUE

\* c.m3uHeaderSet.CompareAndSwap(false, true)
HeaderOnce(m3uHeaderSet) == ~m3uHeaderSet

\* streamSegment from a 200 response up to readAndWriteStream: the default
\* content type, and the header stored and its gate closed once
StoreHeader(s, header) ==
    LET typed == IF HeaderGet(header, "Content-Type") = ""
                 THEN HeaderSet(header, "Content-Type", "video/MP2T")
                 ELSE header
    IN  IF HeaderOnce(s.h.m3uHeaderSet)
        THEN Pair([s.h EXCEPT !.m3uHeaderSet = TRUE,
                       !.WriterRespHeader =
                           <<HeaderDel(typed, "Content-Length")>>,
                       !.respHeaderSet = "closed"],
                  [s.o EXCEPT !.stores = UpTo(@ + 1, 2),
                              !.closes = UpTo(@ + 1, 2),
                              !.writesAtStore = s.o.writes])
        ELSE s

\* (variant: the writer returns without giving its slot back)
HLSReturnKeepsSlot(s) ==
    /\ hls' = [s.h EXCEPT !.pc = "exited", !.LBResultOnWrite = NilResult]
    /\ hobs' = s.o
    /\ UNCHANGED count

\* the writer returns: the deferred calls of StartHLSWriter
HLSReturn(s) ==
    /\ hls' = [s.h EXCEPT !.pc = "exited", !.LBResultOnWrite = NilResult]
    /\ hobs' = s.o
    /\ count' = UpdateConcurrency(count, s.h.lbResult.Index, FALSE)

\* the writer goes on at pc
HLSGoOn(s, at) ==
    /\ hls' = [s.h EXCEPT !.pc = at]
    /\ hobs' = s.o
    /\ UNCHANGED count

\* (variant: no return after the terminal chunk of a cancelled run)
AfterSegmentsGoesOn(s, failed) ==
    IF s.h.endlist
    THEN HLSReturn(writeError(s, StatusEOF))
    ELSE IF failed
    THEN IF s.h.ctxDone
         THEN HLSGoOn(writeError(s, StatusServerError), "select")
         ELSE HLSGoOn(Pair([s.h EXCEPT !.lastErr = TRUE], s.o), "select")
    ELSE HLSGoOn(s, "select")

\* after processSegments has returned (failed: with an error) in
\* StartHLSWriter
AfterSegments(s, failed) ==
    IF s.h.endlist
    THEN HLSReturn(writeError(s, StatusEOF))
    ELSE IF failed
    THEN IF s.h.ctxDone
         THEN HLSReturn(writeError(s, StatusServerError))
         ELSE HLSGoOn(Pair([s.h EXCEPT !.lastErr = TRUE], s.o), "select")
    ELSE HLSGoOn(s, "select")

\* what one streamSegment call can meet: a transport error, a status other
\* than 200, a 200 whose body is relayed to its end, a 200 whose body breaks
\* before any byte (the client returns no nil response without an error)
SegmentOutcomes == {"error", "non200", "relayed", "broken"}

\* the frame of a step of the HLS writer
HLSFrame ==
    UNCHANGED <<config, tools, state, pc, bal, session, ctxDone, obs, others,
                probe, mp4>>

\* a request has become the writer with the load balancer's result:
\* StartHLSWriter up to its loop (fingerprint.go:73-89)
HLSWriterBegin ==
    /\ hls.pc \in {"idle", "exited"}
    /\ hobs.run < MaxRuns
    /\ \E index \in {Head(provided)} :
        LET lbResult == [Response |-> [StatusCode |-> StatusOK],
                         URL |-> ManifestURL, Index |-> index,
                         SubIndex |-> "a"]
        IN  /\ hls' = [InitHLS EXCEPT
                   !.pc = "select", !.state = "Active",
                   !.LBResultOnWrite = lbResult, !.lbResult = lbResult,
                   !.body = Manifests[up.manifest], !.live = TRUE]
            /\ count' = UpdateConcurrency(count, index, TRUE)
    /\ hobs' = [InitHObs EXCEPT !.run = hobs.run + 1,
                                !.began = Manifests[up.manifest]]
    /\ UNCHANGED up
    /\ HLSFrame

\* the select of the loop: the context is done
HLSSelectCancelled ==
    /\ hls.pc = "select"
    /\ hls.state = "Active"
    /\ hls.ctxDone
    /\ LET s == Pair(hls, hobs)
       IN  IF ~hls.lastErr
           THEN HLSReturn(writeError(s, StatusClientClosed))
           ELSE HLSReturn(s)
    /\ UNCHANGED up
    /\ HLSFrame

\* the loop condition fails: the coordinator is no longer active
HLSLoopExit ==
    /\ hls.pc = "select"
    /\ hls.state # "Active"
    /\ HLSReturn(Pair(hls, hobs))
    /\ UNCHANGED up
    /\ HLSFrame

\* the select of the loop: the ticker fires (beat: the parity of the ticks
\* so far); the timeout check, the manifest, the poll interval, and the
\* decision to process segments
HLSTick ==
    /\ hls.pc = "select"
    /\ hls.state = "Active"
    /\ LET wait == IF hls.phase >= hls.pollInterval THEN 0
                   ELSE hls.pollInterval - hls.phase
           t == Elapse(Pair(hls, hobs), wait)
           s == Pair([t.h EXCEPT !.phase = 0],
                     [t.o EXCEPT !.beat = 1 - @])
       IN  IF s.h.since > TimeoutSeconds + s.h.pollInterval
           THEN HLSReturn(writeError(s, StatusEOF))
           ELSE \E copied \in IF hls.live THEN BOOLEAN ELSE {TRUE} :
                IF ~copied
                THEN HLSReturn(writeError(s, StatusServerError))
                ELSE
                LET m3uPlaylist == s.h.body
                    parsed == parsePlaylist(s.h.lbResult.URL, m3uPlaylist)
                    metadata == parsed.metadata
                    polled == Pair([s.h EXCEPT !.live = FALSE,
                                        !.body = m3uPlaylist],
                                   [s.o EXCEPT
                                        !.polls = UpTo(@ + 1, MaxPolls),
                                        !.parsed = m3uPlaylist,
                                        !.served = Manifests[up.manifest],
                                        !.fetched = <<>>])
                    adapted == Pair([polled.h EXCEPT !.pollInterval =
                                         AdaptPollInterval(@,
                                             metadata.TargetDuration)],
                                    polled.o)
                    start(x, endlist) ==
                        LET y == Pair([x.h EXCEPT
                                         !.segments = metadata.Segments,
                                         !.pos = 1, !.endlist = endlist],
                                      x.o)
                        IN  IF metadata.Segments = <<>>
                            THEN AfterSegments(y, FALSE)
                            ELSE HLSGoOn(y, "segments")
                IN  IF parsed.err
                    THEN HLSReturn(writeError(polled, StatusServerError))
                    ELSE IF metadata.IsMaster
                    THEN HLSReturn(writeError(adapted, StatusServerError))
                    ELSE IF metadata.IsEndlist
                    THEN start(adapted, TRUE)
                    ELSE IF metadata.MediaSequence >= adapted.h.lastMediaSeq
                    THEN start(Pair([adapted.h EXCEPT
                                        !.since = 0,
                                        !.lastMediaSeq =
                                            metadata.MediaSequence],
                                    adapted.o), FALSE)
                    ELSE HLSGoOn(adapted, "select")
    /\ UNCHANGED up
    /\ HLSFrame

\* one iteration of processSegments: the context check, then streamSegment
\* for the segment; after the last iteration, or on an error, back in
\* StartHLSWriter
HLSSegment ==
    /\ hls.pc = "segments"
    /\ LET segment == hls.segments[hls.pos]
           last == hls.pos = Len(hls.segments)
           s == Pair(hls, hobs)
           note(x, outcome) ==
               Pair(x.h, [x.o EXCEPT !.fetched =
                              Append(@, <<segment, outcome>>)])
           next(x) ==
               IF last THEN AfterSegments(x, FALSE)
               ELSE HLSGoOn(Pair([x.h EXCEPT !.pos = @ + 1], x.o),
                            "segments")
       IN  IF hls.ctxDone
           THEN AfterSegments(s, TRUE)
           ELSE \E outcome \in SegmentOutcomes,
                   d \in {0, MaxSegmentSeconds},
                   header \in IF hls.m3uHeaderSet
                              THEN {("Content-Type" :> "video/mp4")}
                              ELSE SegmentHeaders :
                LET t == note(Elapse(s, d), outcome)
                IN  IF outcome \in {"error", "non200"}
                    THEN AfterSegments(t, TRUE)
                    ELSE IF outcome = "broken"
                    THEN AfterSegments(StoreHeader(t, header), TRUE)
                    ELSE next(Write(StoreHeader(t, header),
                                    DataChunk(segment)))
    /\ UNCHANGED up
    /\ HLSFrame

\* every client of the coordinator has gone: the writer's context is
\* cancelled (cancelledAt: where the writer was at that moment)
HLSCancel ==
    /\ hls.pc \in {"select", "segments"}
    /\ ~hls.ctxDone
    /\ hls' = [hls EXCEPT !.ctxDone = TRUE]
    /\ hobs' = [hobs EXCEPT !.cancelledAt = hls.pc]
    /\ UNCHANGED <<count, up>>
    /\ HLSFrame

\* the coordinator leaves the Active state while its writer runs
CoordinatorStop ==
    /\ hls.pc \in {"select", "segments"}
    /\ hls.state = "Active"
    /\ hls' = [hls EXCEPT !.state = "Closed"]
    /\ UNCHANGED <<count, up, hobs>>
    /\ HLSFrame

\* the upstream moves on to its next playlist
UpstreamAdvance ==
    /\ Successor(up.manifest) # up.manifest
    /\ up' = [up EXCEPT !.manifest = Successor(@)]
    /\ UNCHANGED <<count, hls, hobs>>
    /\ HLSFrame

(***************************************************************************)
(* mp4Handler (mp4_handler.go:116-230): the request path and the copy      *)
(* goroutine it starts.                                                    *)
(***************************************************************************)
InitMp4 ==
    [pc |-> "idle", copier |-> "none", ctxDone |-> FALSE, index |-> "",
     status |-> 0, before |-> [index \in Sources |-> 0],
     incremented |-> FALSE, decrementedFirst |-> FALSE]

\* the frame of a step of the mp4 handler
Mp4Frame ==
    UNCHANGED <<config, tools, state, pc, bal, session, ctxDone, obs, others,
                probe, hls, up, hobs>>

\* mp4Handler up to its select: the stream is looked up, loadBalancer picks
\* a URL of some source (in its last mode whatever the caps) or fails, and
\* the copy goroutine is started
mp4Handler ==
    /\ mp4.pc = "idle"
    /\ \E found \in BOOLEAN, selected \in Sources \cup {""} :
        IF ~found
        THEN mp4' = [mp4 EXCEPT !.pc = "returned", !.status = 404,
                                !.before = count]
        ELSE IF selected = ""
        THEN mp4' = [mp4 EXCEPT !.pc = "returned", !.status = 500,
                                !.before = count]
        ELSE mp4' = [mp4 EXCEPT !.pc = "select", !.copier = "spawned",
                                !.index = selected, !.status = StatusOK,
                                !.before = count]
    /\ UNCHANGED count
    /\ Mp4Frame

\* the copy goroutine starts: updateConcurrency(index, true)
mp4CopyStart ==
    /\ mp4.copier = "spawned"
    /\ count' = UpdateConcurrency(count, mp4.index, TRUE)
    /\ mp4' = [mp4 EXCEPT !.copier = "copying", !.incremented = TRUE]
    /\ Mp4Frame

\* the copy ends (the source closed, or a write to the client failed) and
\* the goroutine closes done
mp4CopyEnd ==
    /\ mp4.copier = "copying"
    /\ mp4' = [mp4 EXCEPT !.copier = "done"]
    /\ UNCHANGED count
    /\ Mp4Frame

\* the client disconnects: the request's context is done
mp4ClientGone ==
    /\ mp4.pc = "select"
    /\ ~mp4.ctxDone
    /\ mp4' = [mp4 EXCEPT !.ctxDone = TRUE]
    /\ UNCHANGED count
    /\ Mp4Frame

\* the select of mp4Handler takes ctx.Done() or done, then
\* updateConcurrency(index, false) and the handler returns
mp4Select ==
    /\ mp4.pc = "select"
    /\ mp4.ctxDone \/ mp4.copier = "done"
    /\ count' = UpdateConcurrency(count, mp4.index, FALSE)
    /\ mp4' = [mp4 EXCEPT !.pc = "returned",
                          !.decrementedFirst = ~mp4.incremented]
    /\ Mp4Frame

(***************************************************************************)
(* The sorting manager (package sourceproc).  A text that the code takes   *)
(* apart (a title, a group) is a sequence of one-character strings; a map  *)
(* is a function on its keys.                                              *)
(***************************************************************************)
MaxAdds == 2

mutexShards == 4096
SanitizedMax == 100
MaxInt32 == 2147483647

TitleAB == <<"A", "B">>
TitleASpaceB == <<"A", " ", "B">>
TitleCSlashD == <<"C", "/", "D">>
Titles == {TitleAB, TitleASpaceB, TitleCSlashD}

\* xxhash.Sum64String of a title: its low 30 bits, which decide the
\* remainder by mutexShards (0x7e0d83c83fccb8e5 for "AB",
\* 0xf268543559f5aec3 for "A B", 0x7307903d8037eb31 for "C/D")
Sum64String(title) ==
    CASE title = TitleAB -> 1070381285
      [] title = TitleASpaceB -> 435531459
      [] title = TitleCSlashD -> 3664689
      [] OTHER -> 0

ShardIndex(title) == Sum64String(title) % mutexShards

Shards == {ShardIndex(title) : title \in Titles}

\* a StreamInfo of the playlist parser, with one URL
ParsedStream(title, tvgID, sourceM3U, sourceIndex, url) ==
    [Title |-> title, TvgID |-> tvgID, TvgChNo |-> "", TvgType |-> <<>>,
     LogoURL |-> "", Group |-> <<>>,
     URLs |-> (sourceM3U :> ((IF sourceIndex = 0 THEN "a" ELSE "b") :> url)),
     SourceM3U |-> sourceM3U, SourceIndex |-> sourceIndex]

\* the streams the playlists hold
Feed ==
    {ParsedStream(title, tvgID, sourceM3U, sourceIndex, url) :
        title \in Titles, tvgID \in {"", "id"}, sourceM3U \in {"1", "2"},
        sourceIndex \in {0, 1}, url \in {"u1", "u2"}}

\* strings.NewReplacer(...).Replace of sanitizeField
ReplacedByUnderscore == {"/", "\\", ":", "*", "?", "\"", "<", ">", "|"}

RECURSIVE Replace(_)
Replace(value) ==
    IF value = <<>> THEN <<>>
    ELSE LET c == Head(value)
         IN  (IF c = " " THEN <<>>
              ELSE IF c \in ReplacedByUnderscore THEN <<"_">>
              ELSE <<c>>) \o Replace(Tail(value))

sanitizeField(value) ==
    LET santized == Replace(value)
    IN  IF Len(santized) > SanitizedMax
        THEN SubSeq(santized, 1, SanitizedMax)
        ELSE santized

reverseLexicographical(value) == <<"~">> \o value

normalizeStringField(value, direction) ==
    IF direction = "desc" THEN reverseLexicographical(value)
    ELSE sanitizeField(value)

\* fmt.Sprintf("%0*d", width, n): the digits of n in a field of that width
Padded(width, n) == <<width, n>>

normalizeNumericField(value, width, direction) ==
    LET num == Atoi(value)
    IN  IF num.err THEN sanitizeField(value)
        ELSE IF direction = "desc" THEN Padded(width, MaxInt32 - num.n)
        ELSE Padded(width, num.n)

\* the sorting keys of the environment that are followed here: by source,
\* and any other text for the default (by title)
SortingKeys == {"", "source"}
SortingDirections == {"asc", "desc"}

\* the file name of AddToSorter, by its parts
FileName(m, s) ==
    LET primaryField ==
            IF m.sortingKey = "source"
            THEN normalizeNumericField(s.SourceM3U, 5, m.sortingDir)
            ELSE normalizeStringField(s.Title, m.sortingDir)
        sourceM3U == normalizeNumericField(s.SourceM3U, 5, "asc")
        sourceIndex == Padded(5, s.SourceIndex)
        group == sanitizeField(s.Group)
        tvgType == sanitizeField(s.TvgType)
        title == sanitizeField(s.Title)
    IN  <<primaryField, group, tvgType, sourceM3U, sourceIndex, title,
          m.sortingKey>>

\* encoding/json on a StreamInfo: every field but URLs, whose tag is "-"
EncodeJSON(stream) ==
    [title |-> stream.Title, tvg_id |-> stream.TvgID,
     tvg_ch |-> stream.TvgChNo, tvg_type |-> stream.TvgType,
     logo |-> stream.LogoURL, group |-> stream.Group,
     source_m3u |-> stream.SourceM3U, source_index |-> stream.SourceIndex]

\* the decoder leaves URLs as it finds it in a new StreamInfo: nil
DecodeJSON(doc) ==
    [Title |-> doc.title, TvgID |-> doc.tvg_id, TvgChNo |-> doc.tvg_ch,
     TvgType |-> doc.tvg_type, LogoURL |-> doc.logo, Group |-> doc.group,
     URLs |-> EmptyMap,
     SourceM3U |-> doc.source_m3u, SourceIndex |-> doc.source_index]

readStreamInfoFromFile(files, filename) == DecodeJSON(files[filename])

writeStreamInfoToFile(files, filename, stream) ==
    (filename :> EncodeJSON(stream)) @@ files

\* the string comparison of SourceM3U, on numerals of one digit
StringLess(a, b) == Atoi(a).n < Atoi(b).n

\* the loop over new.URLs of mergeStreamInfoAttributes
MergeURLs(base, new) ==
    [key \in DOMAIN base \cup DOMAIN new |->
        IF key \notin DOMAIN base THEN new[key]
        ELSE IF key \notin DOMAIN new THEN base[key]
        ELSE [subKey \in DOMAIN base[key] \cup DOMAIN new[key] |->
                 IF subKey \in DOMAIN new[key] THEN new[key][subKey]
                 ELSE base[key][subKey]]]

mergeStreamInfoAttributes(base, new) ==
    LET earlier ==
            \/ StringLess(new.SourceM3U, base.SourceM3U)
            \/ /\ new.SourceM3U = base.SourceM3U
               /\ new.SourceIndex < base.SourceIndex
    IN  [Title |-> IF base.Title = <<>> THEN new.Title ELSE base.Title,
         TvgID |-> IF base.TvgID = "" THEN new.TvgID ELSE base.TvgID,
         TvgChNo |-> IF base.TvgChNo = "" THEN new.TvgChNo ELSE base.TvgChNo,
         TvgType |-> IF base.TvgType = <<>> THEN new.TvgType
                     ELSE base.TvgType,
         LogoURL |-> IF base.LogoURL = "" THEN new.LogoURL ELSE base.LogoURL,
         Group |-> IF base.Group = <<>> THEN new.Group ELSE base.Group,
         URLs |-> MergeURLs(base.URLs, new.URLs),
         SourceM3U |-> IF earlier THEN new.SourceM3U ELSE base.SourceM3U,
         SourceIndex |-> IF earlier THEN new.SourceIndex
                         ELSE base.SourceIndex]

mergeStreamInfo(files, existingFile, newStream) ==
    LET existingStream == readStreamInfoFromFile(files, existingFile)
        mergedStream == mergeStreamInfoAttributes(existingStream, newStream)
    IN  writeStreamInfoToFile(files, existingFile, mergedStream)

ErrFileExists == "file already exists"

\* newSortingManager; calls: the AddToSorter calls so far with what they
\* returned, delivered: what the last GetSortedEntries gave its callback,
\* by file (collected: no call since)
InitSorter ==
    [sortingKey |-> "", sortingDir |-> "asc",
     caches |-> [shardIndex \in Shards |-> EmptyMap],
     files |-> EmptyMap,
     calls |-> <<>>, delivered |-> EmptyMap, collected |-> FALSE]

SorterFrame ==
    UNCHANGED <<config, media, count, state, pc, bal, session, ctxDone, obs,
                others, probe, slug>>

\* one AddToSorter call, under the mutex of its shard
AddToSorter(s) ==
    /\ Len(sorter.calls) < MaxAdds
    /\ LET m == sorter
           filename == FileName(m, s)
           sanitizedTitle == sanitizeField(s.Title)
           shardIndex == ShardIndex(s.Title)
           cache == m.caches[shardIndex]
           returned(x, err) ==
               [x EXCEPT !.calls = Append(@, [stream |-> s, err |-> err]),
                         !.collected = FALSE]
       IN  IF sanitizedTitle \in DOMAIN cache
           THEN sorter' = returned(
                    [m EXCEPT !.files =
                         mergeStreamInfo(@, cache[sanitizedTitle], s)], "")
           ELSE IF filename \in DOMAIN m.files
           THEN sorter' = returned(m, ErrFileExists)
           ELSE sorter' = returned(
                    [m EXCEPT
                       !.files = writeStreamInfoToFile(@, filename, s),
                       !.caches[shardIndex] =
                           (sanitizedTitle :> filename) @@ @], "")
    /\ SorterFrame

\* GetSortedEntries: the callback gets the StreamInfo read from each file
GetSortedEntries ==
    /\ ~sorter.collected
    /\ sorter' = [sorter EXCEPT
           !.delivered = [filename \in DOMAIN sorter.files |->
                             readStreamInfoFromFile(sorter.files, filename)],
           !.collected = TRUE]
    /\ SorterFrame

(***************************************************************************)
(* The slug codec (package store).  A byte slice is a sequence of numbers  *)
(* 0..255, a string a sequence of one-character strings.                   *)
(***************************************************************************)
\* the bytes of the characters the streams are written with
CharCode(c) ==
    CASE c = " " -> 32 [] c = "/" -> 47 [] c = "0" -> 48 [] c = "1" -> 49
      [] c = "2" -> 50 [] c = "A" -> 65 [] c = "B" -> 66 [] c = "C" -> 67
      [] c = "D" -> 68 [] c = "i" -> 105 [] c = "u" -> 117
      [] OTHER -> 63

\* json.Marshal of a stream: an object of its title, tvg id, source, index
\* and URL, the fields apart by commas
Marshal(stream) ==
    LET sub == IF stream.SourceIndex = 0 THEN "a" ELSE "b"
        url == stream.URLs[stream.SourceM3U][sub]
    IN  <<123>> \o [i \in DOMAIN stream.Title |-> CharCode(stream.Title[i])]
            \o <<44>> \o (IF stream.TvgID = "" THEN <<>> ELSE <<105>>)
            \o <<44, CharCode(stream.SourceM3U)>>
            \o <<44, 48 + stream.SourceIndex>>
            \o <<44, 117, IF url = "u1" THEN 49 ELSE 50>>
            \o <<125>>

\* json.Unmarshal: [err, stream]; no bytes, or bytes that are no object,
\* are an error
Unmarshal(data) ==
    IF \E stream \in Feed : Marshal(stream) = data
    THEN [err |-> FALSE,
          stream |-> CHOOSE stream \in Feed : Marshal(stream) = data]
    ELSE [err |-> TRUE, stream |-> NoStream]

\* a zstd frame: the magic number, then the content
ZstdMagic == <<40, 181, 47, 253>>

\* zstd.CompressLevel(dst, src, level) with a dst that is too small for
\* the frame: the frame is in the slice it returns, dst is as it was
CompressLevel(dst, src) ==
    [out |-> ZstdMagic \o src, dst |-> dst, err |-> FALSE]

\* zstd.Decompress(dst, src) likewise; an empty src and a src that is no
\* frame are errors
Decompress(dst, src) ==
    IF Len(src) >= Len(ZstdMagic)
       /\ SubSeq(src, 1, Len(ZstdMagic)) = ZstdMagic
    THEN [out |-> SubSeq(src, Len(ZstdMagic) + 1, Len(src)), dst |-> dst,
          err |-> FALSE]
    ELSE [out |-> <<>>, dst |-> dst, err |-> TRUE]

\* the alphabet of base64.StdEncoding
StdAlphabet ==
    <<"A", "B", "C", "D", "E", "F", "G", "H", "I", "J", "K", "L", "M",
      "N", "O", "P", "Q", "R", "S", "T", "U", "V", "W", "X", "Y", "Z",
      "a", "b", "c", "d", "e", "f", "g", "h", "i", "j", "k", "l", "m",
      "n", "o", "p", "q", "r", "s", "t", "u", "v", "w", "x", "y", "z",
      "0", "1", "2", "3", "4", "5", "6", "7", "8", "9", "+", "/">>

StdChar(v) == StdAlphabet[v + 1]

StdValue(c) == (CHOOSE i \in DOMAIN StdAlphabet : StdAlphabet[i] = c) - 1

IsStdChar(c) == \E i \in DOMAIN StdAlphabet : StdAlphabet[i] = c

\* base64.StdEncoding.EncodeToString
RECURSIVE EncodeToString(_)
EncodeToString(src) ==
    IF src = <<>> THEN <<>>
    ELSE IF Len(src) = 1
    THEN <<StdChar(src[1] \div 4), StdChar((src[1] % 4) * 16), "=", "=">>
    ELSE IF Len(src) = 2
    THEN <<StdChar(src[1] \div 4),
           StdChar((src[1] % 4) * 16 + src[2] \div 16),
           StdChar((src[2] % 16) * 4), "=">>
    ELSE <<StdChar(src[1] \div 4),
           StdChar((src[1] % 4) * 16 + src[2] \div 16),
           StdChar((src[2] % 16) * 4 + src[3] \div 64),
           StdChar(src[3] % 64)>>
         \o EncodeToString(SubSeq(src, 4, Len(src)))

\* base64.StdEncoding.DecodeString: [err, data]
RECURSIVE DecodeString(_)
DecodeString(s) ==
    IF s = <<>> THEN [err |-> FALSE, data |-> <<>>]
    ELSE IF Len(s) < 4 \/ ~IsStdChar(s[1]) \/ ~IsStdChar(s[2])
    THEN [err |-> TRUE, data |-> <<>>]
    ELSE
    LET v1 == StdValue(s[1])
        v2 == StdValue(s[2])
        b1 == v1 * 4 + v2 \div 16
    IN  IF s[3] = "=" /\ s[4] = "="
        THEN IF Len(s) = 4 /\ v2 % 16 = 0
             THEN [err |-> FALSE, data |-> <<b1>>]
             ELSE [err |-> TRUE, data |-> <<>>]
        ELSE IF ~IsStdChar(s[3]) THEN [err |-> TRUE, data |-> <<>>]
        ELSE
        LET v3 == StdValue(s[3])
            b2 == (v2 % 16) * 16 + v3 \div 4
        IN  IF s[4] = "="
            THEN IF Len(s) = 4 /\ v3 % 4 = 0
                 THEN [err |-> FALSE, data |-> <<b1, b2>>]
                 ELSE [err |-> TRUE, data |-> <<>>]
            ELSE IF ~IsStdChar(s[4]) THEN [err |-> TRUE, data |-> <<>>]
            ELSE
            LET b3 == (v3 % 4) * 64 + StdValue(s[4])
                rest == DecodeString(SubSeq(s, 5, Len(s)))
            IN  IF rest.err THEN rest
                ELSE [err |-> FALSE, data |-> <<b1, b2, b3>> \o rest.data]

\* strings.Replace(s, old, new, -1) for an old of one character and a new
\* of one character or none
RECURSIVE StringsReplace(_, _, _)
StringsReplace(s, old, new) ==
    IF s = <<>> THEN <<>>
    ELSE (IF Head(s) = old
          THEN (IF new = "" THEN <<>> ELSE <<new>>)
          ELSE <<Head(s)>>) \o StringsReplace(Tail(s), old, new)

EncodeSlug(stream) ==
    LET jsonData == Marshal(stream)
        compressedData == <<>>
        compressed == CompressLevel(compressedData, jsonData)
        encodedData == EncodeToString(compressed.dst)
    IN  IF compressed.err THEN <<>>
        ELSE StringsReplace(
                 StringsReplace(StringsReplace(encodedData, "+", "-"),
                                "/", "_"),
                 "=", "")

\* [err, stream]
DecodeSlug(encodedSlug) ==
    LET replaced == StringsReplace(StringsReplace(encodedSlug, "-", "+"),
                                   "_", "/")
        padded == CASE Len(replaced) % 4 = 2 -> replaced \o <<"=", "=">>
                    [] Len(replaced) % 4 = 3 -> replaced \o <<"=">>
                    [] OTHER -> replaced
        decoded == DecodeString(padded)
        decompressedData == <<>>
        decompressed == Decompress(decompressedData, decoded.data)
        result == Unmarshal(decompressed.dst)
    IN  IF decoded.err \/ decompressed.err \/ result.err
        THEN [err |-> TRUE, stream |-> NoStream]
        ELSE [err |-> FALSE, stream |-> result.stream]

\* the slug of a stream as the base64 text of its whole zstd frame
FramedSlug(stream) ==
    StringsReplace(
        StringsReplace(
            StringsReplace(
                EncodeToString(CompressLevel(<<>>, Marshal(stream)).out),
                "+", "-"),
            "/", "_"),
        "=", "")

NoSlugResult == [err |-> FALSE, stream |-> NoStream]

InitSlug ==
    [pc |-> "input", stream |-> NoStream, encoded |-> <<>>,
     result |-> NoSlugResult]

SlugFrame ==
    UNCHANGED <<config, media, count, state, pc, bal, session, ctxDone, obs,
                others, probe, sorter>>

\* EncodeSlug on the stream
SlugEncode ==
    /\ slug.pc = "input"
    /\ slug' = [slug EXCEPT !.pc = "encoded",
                            !.encoded = EncodeSlug(slug.stream)]
    /\ SlugFrame

\* DecodeSlug on what EncodeSlug returned
SlugDecode ==
    /\ slug.pc = "encoded"
    /\ slug' = [slug EXCEPT !.pc = "decoded",
                            !.result = DecodeSlug(slug.encoded)]
    /\ SlugFrame

\* DecodeSlug on the slug of the stream's whole frame
SlugDecodeFramed ==
    /\ slug.pc = "input"
    /\ slug' = [slug EXCEPT !.pc = "framed",
                            !.encoded = FramedSlug(slug.stream),
                            !.result = DecodeSlug(FramedSlug(slug.stream))]
    /\ SlugFrame

(***************************************************************************)
(* Specifications.                                                         *)
(***************************************************************************)
ProviderLists == {<<"0", "1">>, <<"1", "0">>, <<"1">>, <<>>}

\* what a session holds when a request starts: pairs that failed in the
\* lap of an earlier request that then succeeded
InitialTested ==
    {<<>>, <<TestedKey("0", "a")>>, <<TestedKey("1", "a")>>}

\* the steps of Balance without cancellation
LapSteps(p) ==
    \/ BalanceCall(p) \/ LapStart(p) \/ NextSource(p) \/ TryUrl(p)
    \/ DoReturn(p) \/ WaitElapsed(p)

\* a request from its arrival as the writer to the writer's return
WriterRequest(p) ==
    \/ Arrive(p) \/ LapSteps(p) \/ WaitCancelled(p) \/ Cancel(p)
    \/ BalanceFailed(p) \/ StartHLSWriter(p) \/ WriterExit(p)

InitShared ==
    /\ state = [id \in Stems |-> "Idle"]
    /\ bal = [p \in Procs |-> InitBal]
    /\ obs = [p \in Procs |-> InitObs]
    /\ ctxDone = [p \in Procs |-> FALSE]
    /\ probe = InitProbe
    /\ hls = InitHLS
    /\ up = InitUp
    /\ hobs = InitHObs
    /\ mp4 = InitMp4
    /\ sorter = InitSorter
    /\ slug = InitSlug

\* requests that reach the laps of Balance, and requests that do not
LapRequests ==
    {Request("GET", "ch1"), Request("GET", "ch2"), Request("GET", "ch3"),
     Request("G T", "ch1")}

EnvConfigs == [Sources -> EnvChoices]

\* the connections that coordinators outside the model hold: at most the
\* cap of each source
OthersOf(e) ==
    {o \in [Sources -> 0..MaxCap] :
        \A index \in Sources : o[index] <= MaxConcurrencyOf(e[index])}

\* one client; the other coordinators keep the connections they have
Init ==
    /\ InitShared
    /\ pc = [p \in Procs |-> IF p = "p1" THEN "new" ELSE "absent"]
    /\ \/ /\ env \in EnvConfigs
          /\ maxRetries \in 0..MaxRetriesBound
          /\ provided \in ProviderLists
          /\ inbox \in {f \in [Procs -> LapRequests] :
                            f["p2"] = Request("GET", "ch1")}
          /\ session \in {f \in [Procs -> InitialTested] : f["p2"] = <<>>}
       \/ /\ env = [index \in Sources |-> EnvUnset]
          /\ maxRetries = 1
          /\ provided = <<"0", "1">>
          /\ inbox \in {f \in [Procs -> Requests \ LapRequests] :
                            f["p2"] = Request("GET", "gone")}
          /\ session \in {f \in [Procs -> InitialTested] : f["p2"] = <<>>}
    /\ others \in OthersOf(env)
    /\ count = others

Next ==
    \/ WriterRequest("p1")
    \/ \E id \in Stems : Drained(id)

Spec == Init /\ [][Next]_vars


\* two clients at once, on the same stream or on two streams that share
\* source "0"
InitConc ==
    /\ InitShared
    /\ pc = [p \in Procs |-> "new"]
    /\ env \in EnvConfigs
    /\ maxRetries = 1
    /\ provided = <<"0", "1">>
    /\ inbox \in [Procs -> {Request("GET", "ch1"), Request("GET", "ch2")}]
    /\ session = [p \in Procs |-> <<>>]
    /\ others = [index \in Sources |-> 0]
    /\ count = others

NextConc ==
    \/ \E p \in Procs : WriterRequest(p) \/ ReaderLeave(p)
    \/ \E id \in Stems : Drained(id)

SpecConc == InitConc /\ [][NextConc]_vars


\* one client whose Balance call retries without bound, under the fairness
\* of the scheduler: a goroutine that can run does run, and a select whose
\* ctx.Done() case is ready again and again takes it in the end (the case is
\* chosen at random among the ready ones)
InitLive ==
    /\ InitShared
    /\ pc = [p \in Procs |-> IF p = "p1" THEN "new" ELSE "absent"]
    /\ env = [index \in Sources |-> EnvUnset]
    /\ maxRetries = 0
    /\ provided \in {<<"0", "1">>, <<>>}
    /\ inbox \in {f \in [Procs -> {Request("GET", "ch1"), Request("GET", "ch2")}] :
                      f["p2"] = Request("GET", "ch1")}
    /\ session \in {f \in [Procs -> InitialTested] : f["p2"] = <<>>}
    /\ others \in OthersOf(env)
    /\ count = others

Fairness ==
    /\ WF_vars(LapSteps("p1") \/ WaitCancelled("p1"))
    /\ SF_vars(WaitCancelled("p1"))

LiveSpec == InitLive /\ [][Next]_vars /\ Fairness

\* one client whose Balance call retries without bound, beside a backoff
\* strategy that is asked for delays and reset
InitBackoff ==
    /\ InitShared
    /\ pc = [p \in Procs |-> IF p = "p1" THEN "new" ELSE "absent"]
    /\ env \in EnvConfigs
    /\ maxRetries = 0
    /\ provided = <<"0", "1">>
    /\ inbox = [p \in Procs |-> Request("GET", "ch1")]
    /\ session = [p \in Procs |-> <<>>]
    /\ others = [index \in Sources |-> 0]
    /\ count = others

NextBackoff ==
    \/ Arrive("p1") \/ LapSteps("p1")
    \/ ProbeNext \/ ProbeReset

BackoffSpec == InitBackoff /\ [][NextBackoff]_vars

\* two runs of Balance side by side, from the same request, session,
\* counters and configuration; each run has its own session and neither
\* changes the counters
InitPair ==
    /\ InitShared
    /\ pc = [p \in Procs |-> "balance"]
    /\ env = [index \in Sources |-> EnvUnset]
    /\ maxRetries = 1
    /\ provided = <<"0", "1">>
    /\ inbox \in {[p \in Procs |-> r] :
                      r \in {Request("GET", "ch1"), Request("GET", "ch2")}}
    /\ session \in {[p \in Procs |-> t] : t \in InitialTested}
    /\ others \in OthersOf(env)
    /\ count = others

NextPair == \E p \in Procs : LapSteps(p)

SpecPair == InitPair /\ [][NextPair]_vars


\* no request is at the load balancer
InitBalancerIdle ==
    /\ state = [id \in Stems |-> "Idle"]
    /\ bal = [p \in Procs |-> InitBal]
    /\ obs = [p \in Procs |-> InitObs]
    /\ ctxDone = [p \in Procs |-> FALSE]
    /\ probe = InitProbe
    /\ pc = [p \in Procs |-> "absent"]
    /\ maxRetries = 1
    /\ provided = <<"0", "1">>
    /\ inbox = [p \in Procs |-> Request("GET", "ch1")]
    /\ session = [p \in Procs |-> <<>>]

\* one coordinator whose requests become HLS writers, one run after the
\* other, in front of an upstream that serves some manifest
InitWriter ==
    /\ InitBalancerIdle
    /\ env = [index \in Sources |-> EnvUnset]
    /\ others = [index \in Sources |-> 0]
    /\ count = others
    /\ hls = InitHLS
    /\ up \in [manifest : ManifestNames]
    /\ hobs = InitHObs
    /\ mp4 = InitMp4
    /\ sorter = InitSorter
    /\ slug = InitSlug

\* the steps of the writer itself
WriterSteps ==
    \/ HLSWriterBegin \/ HLSTick \/ HLSSegment
    \/ HLSSelectCancelled \/ HLSLoopExit

NextWriter ==
    \/ WriterSteps
    \/ HLSCancel \/ CoordinatorStop \/ UpstreamAdvance

HLSSpec == InitWriter /\ [][NextWriter]_vars

\* the writer under the fairness of the scheduler: a writer that can take a
\* step takes one
HLSLiveSpec == InitWriter /\ [][NextWriter]_vars /\ WF_vars(WriterSteps)


\* one mp4 request, beside the connections other requests hold
InitMp4Request ==
    /\ InitBalancerIdle
    /\ env \in EnvConfigs
    /\ others \in OthersOf(env)
    /\ count = others
    /\ hls = InitHLS
    /\ up = InitUp
    /\ hobs = InitHObs
    /\ mp4 = InitMp4
    /\ sorter = InitSorter
    /\ slug = InitSlug

NextMp4 ==
    \/ mp4Handler \/ mp4CopyStart \/ mp4CopyEnd \/ mp4ClientGone
    \/ mp4Select

Mp4Spec == InitMp4Request /\ [][NextMp4]_vars


\* the playlists are read: their streams go to the sorter in any order,
\* under some sorting key and direction of the environment
InitSorting ==
    /\ InitBalancerIdle
    /\ env = [index \in Sources |-> EnvUnset]
    /\ others = [index \in Sources |-> 0]
    /\ count = others
    /\ hls = InitHLS
    /\ up = InitUp
    /\ hobs = InitHObs
    /\ mp4 = InitMp4
    /\ sorter \in {[InitSorter EXCEPT !.sortingKey = key,
                                      !.sortingDir = direction] :
                       key \in SortingKeys, direction \in SortingDirections}
    /\ slug = InitSlug

NextSorting ==
    \/ \E s \in Feed : AddToSorter(s)
    \/ GetSortedEntries

SorterSpec == InitSorting /\ [][NextSorting]_vars

\* one stream is made a slug and read back
InitSlugs ==
    /\ InitBalancerIdle
    /\ env = [index \in Sources |-> EnvUnset]
    /\ others = [index \in Sources |-> 0]
    /\ count = others
    /\ hls = InitHLS
    /\ up = InitUp
    /\ hobs = InitHObs
    /\ mp4 = InitMp4
    /\ sorter = InitSorter
    /\ slug \in {[InitSlug EXCEPT !.stream = stream] : stream \in Feed}

NextSlugs == SlugEncode \/ SlugDecode \/ SlugDecodeFramed

SlugSpec == InitSlugs /\ [][NextSlugs]_vars

(***************************************************************************)
(* Properties.                                                             *)
(***************************************************************************)
BalancePcs == {"balance", "loop", "source", "urls", "do", "wait"}
LoopPcs == {"loop", "source", "urls", "do", "wait"}

\* Balance has returned a result
Succeeded(p) == pc[p] \in {"returned", "writer"} /\ bal[p].err = ""

\* the client holds an upstream response on the source: from the 200 answer
\* until its writer returns
HoldsUpstream(p, index) == Succeeded(p) /\ bal[p].result.Index = index

Holders(index) == {p \in Procs : HoldsUpstream(p, index)}

\* the client is the writer of the stream: from taking the coordinator until
\* Balance fails or the writer returns
IsWriter(p, id) ==
    /\ StreamID(p) = id
    /\ pc[p] \in BalancePcs \cup {"returned", "writer"}

TestedSet(p) == {session[p][i] : i \in DOMAIN session[p]}

\* C1: for every source, the number of clients that hold an upstream
\* response on it, with the connections of the other coordinators, never
\* exceeds the cap of the source.
C1_ConcurrencyCap ==
    \A index \in Sources :
        Cardinality(Holders(index)) + others[index] <= MaxConcurrency(index)

\* C2: of the requests for one stream at most one is the writer at any time,
\* the coordinator is Active exactly while it has a writer, and so at most
\* one upstream request is in flight and at most one writer runs per stream.
C2_OneWriterPerChannel ==
    \A id \in Stems :
        /\ Cardinality({p \in Procs : IsWriter(p, id)}) <= 1
        /\ (state[id] = "Active") <=> (\E p \in Procs : IsWriter(p, id))
        /\ Cardinality({p \in Procs : StreamID(p) = id /\ pc[p] = "do"}) <= 1
        /\ Cardinality({p \in Procs : StreamID(p) = id /\ pc[p] = "writer"}) <= 1

\* two requests for the same stream have arrived: one runs the writer, the
\* other reads
C2_Witness ==
    /\ StreamID("p1") = StreamID("p2")
    /\ \E p, q \in Procs : pc[p] = "writer" /\ pc[q] = "reader"

\* C3: a 200 answer ends Balance in the lap it came in: the result carries
\* the 200 response, its URL is Info.URLs[Index][SubIndex], and every pair
\* requested earlier in that lap is in TestedIndexes; a lap fails only when
\* every request it issued failed.
C3_FailoverWithinLap ==
    \A p \in Procs :
        /\ Succeeded(p) /\ pc[p] = "returned" =>
            LET r == bal[p].result
            IN  /\ r.Response.StatusCode = StatusOK
                /\ r.Index \in DOMAIN bal[p].Info.URLs
                /\ r.SubIndex \in DOMAIN bal[p].Info.URLs[r.Index]
                /\ r.URL = bal[p].Info.URLs[r.Index][r.SubIndex]
                /\ TestedKey(r.Index, r.SubIndex) \in obs[p].requested
                /\ obs[p].requested \ {TestedKey(r.Index, r.SubIndex)}
                       \subseteq TestedSet(p)
                /\ obs[p].laps = bal[p].lap + 1
        /\ pc[p] = "wait" => obs[p].requested \subseteq obs[p].failed

\* source "0" failed, source "1" answered 200 in the same lap
C3_Witness ==
    /\ Succeeded("p1") /\ pc["p1"] = "returned"
    /\ bal["p1"].result.Index = "1"
    /\ TestedKey("0", "a") \in obs["p1"].requested
    /\ TestedKey("0", "a") \in TestedSet("p1")

\* C4: in one lap no pair is requested twice, and a pair that is in
\* TestedIndexes is not requested.
C4_SessionMemory ==
    \A p \in Procs :
        /\ obs[p].attempts = Cardinality(obs[p].requested)
        /\ obs[p].skipped \cap obs[p].requested = {}
        /\ pc[p] = "do" =>
               TestedKey(bal[p].index, bal[p].subIndex) \notin TestedSet(p)

\* a pair was skipped as already tested and another was requested
C4_Witness ==
    /\ obs["p1"].skipped # {}
    /\ obs["p1"].attempts >= 1
    /\ pc["p1"] = "do"

\* C5: after a failed lap TestedIndexes is empty; in the next lap no pair is
\* skipped as already tested, so that when this lap fails too every pair that
\* failed in the lap before was tried again unless its source was at its cap;
\* a wait of at least the backoff floor lies before every later lap.
C5_SecondChance ==
    \A p \in Procs :
        /\ pc[p] = "wait" => session[p] = <<>>
        /\ pc[p] = "loop" /\ bal[p].lap >= 1 => session[p] = <<>>
        /\ obs[p].laps >= 2 => obs[p].skipped = {}
        /\ pc[p] = "wait" /\ obs[p].laps >= 2 =>
               obs[p].failedPrev \subseteq
                   obs[p].requested \cup obs[p].failed \cup obs[p].capped
        /\ Len(obs[p].waits) >= bal[p].lap
        /\ \A i \in DOMAIN obs[p].waits : obs[p].waits[i] >= BackoffInitialMs

\* both pairs failed in lap 0 and Balance succeeds in lap 1 on one of them
C5_Witness ==
    /\ Succeeded("p1") /\ pc["p1"] = "returned"
    /\ bal["p1"].lap = 1
    /\ Cardinality(obs["p1"].failedPrev) = 2
    /\ TestedKey(bal["p1"].result.Index, bal["p1"].result.SubIndex)
           \in obs["p1"].failedPrev

EarlyErrors ==
    {ErrNilContext, ErrNilSession, ErrNilRequest, ErrNoMethod, ErrInvalidID,
     ErrFetchingSources}

\* C6: with MaxRetries = M > 0 Balance never runs more than M laps, returns
\* the 'exhausted' error only after exactly M laps, and with a context that
\* is not cancelled a Balance call that reached its loop and got no result
\* returns 'exhausted'.
C6_RetryBudget ==
    \A p \in Procs :
        maxRetries > 0 =>
            /\ obs[p].laps <= maxRetries
            /\ bal[p].err = ErrExhausted => obs[p].laps = maxRetries
            /\ (/\ pc[p] \in {"returned", "failed"}
                /\ ~ctxDone[p]
                /\ bal[p].err \notin EarlyErrors \cup {""})
               => bal[p].err = ErrExhausted /\ obs[p].laps = maxRetries

\* two laps in which requests were issued and failed, then 'exhausted'
C6_Witness ==
    /\ maxRetries = 2
    /\ pc["p1"] = "returned"
    /\ bal["p1"].err = ErrExhausted
    /\ ~ctxDone["p1"]
    /\ obs["p1"].laps = 2
    /\ obs["p1"].failed # {}


\* C7: with MaxRetries = 0 Balance never returns 'exhausted' and goes from
\* every backoff wait to a next lap unless it returns the cancellation error;
\* once the context is cancelled while Balance is in its loop, no request is
\* issued in a later lap and Balance returns the cancellation error in the
\* end.
C7_UnboundedEndsOnCancel ==
    /\ [](maxRetries = 0 =>
            /\ bal["p1"].err # ErrExhausted
            /\ obs["p1"].lateRequests = 0)
    /\ [](maxRetries = 0 /\ pc["p1"] = "wait" =>
            <>(pc["p1"] = "loop" \/ bal["p1"].err = ErrCancelling))
    /\ [](maxRetries = 0 /\ ctxDone["p1"] /\ pc["p1"] \in LoopPcs =>
            <>(pc["p1"] \in {"returned", "failed"}
               /\ bal["p1"].err = ErrCancelling))

\* cancelled during a request of the second lap or later, Balance has
\* returned the cancellation error
C7_Witness ==
    /\ maxRetries = 0
    /\ pc["p1"] = "returned"
    /\ bal["p1"].err = ErrCancelling
    /\ obs["p1"].cancelledInLap
    /\ obs["p1"].laps >= 2
    /\ obs["p1"].failed # {}

\* the delays of the claim, by position
ExpectedDelay(i) ==
    CASE i = 1 -> 200
      [] i = 2 -> 400
      [] i = 3 -> 800
      [] i = 4 -> 1600
      [] OTHER -> 2000

\* C8: the waits of one Balance call are 200, 400, 800, 1600 ms and then
\* 2000 ms, never decreasing; a strategy gives the same delays from the
\* floor again after Reset().
C8_BackoffMonotonicity ==
    /\ \A i \in DOMAIN obs["p1"].waits :
           /\ obs["p1"].waits[i] = ExpectedDelay(i)
           /\ i > 1 => obs["p1"].waits[i] >= obs["p1"].waits[i - 1]
    /\ pc["p1"] = "wait" => bal["p1"].timer = ExpectedDelay(obs["p1"].laps)
    /\ \A i \in DOMAIN probe.delays : probe.delays[i] = ExpectedDelay(i)

\* six waits have passed in Balance, and the strategy beside it was reset
\* after reaching the ceiling and has given the floor again
C8_Witness ==
    /\ Len(obs["p1"].waits) = MaxLaps
    /\ obs["p1"].waits[MaxLaps] = BackoffMaxMs
    /\ probe.resets >= 1
    /\ probe.delays = <<BackoffInitialMs>>

\* C9: the sources handed to tryStreamUrls in one lap come in non-increasing
\* order of the priority value read when the lap started; with caps [2,1]
\* and counts [0,0] source "0" comes first, with counts [2,0] source "1".
C9_PriorityOrder ==
    \A p \in Procs :
        LET v == obs[p].visited
            pr == obs[p].priority
            both == Len(v) = 2
            caps21 == MaxConcurrency("0") = 2 /\ MaxConcurrency("1") = 1
        IN  /\ \A i, j \in DOMAIN v : i < j => pr[v[i]] >= pr[v[j]]
            /\ both /\ caps21 /\ pr["0"] = 2 - 0 /\ pr["1"] = 1 - 0
                   => v[1] = "0"
            /\ both /\ caps21 /\ pr["0"] = 2 - 2 /\ pr["1"] = 1 - 0
                   => v[1] = "1"

\* caps [2,1], counts [2,0], the provider lists "0" first: "1" is tried first
C9_Witness ==
    /\ provided = <<"0", "1">>
    /\ MaxConcurrency("0") = 2 /\ MaxConcurrency("1") = 1
    /\ count["0"] = 2 /\ count["1"] = 0
    /\ obs["p1"].visited = <<"1", "0">>

\* C10: of two sources with equal priority value the one with the smaller
\* source index is handed to tryStreamUrls first.
C10_PriorityTies ==
    \A p \in Procs :
        LET v == obs[p].visited
            pr == obs[p].priority
        IN  \A i, j \in DOMAIN v :
                i < j /\ pr[v[i]] = pr[v[j]]
                    => IndexNumber(v[i]) < IndexNumber(v[j])

\* C11: two Balance runs from the same channel, session, counters and
\* upstream answers select the same source, sub-index and URL: when both
\* runs succeed in their first lap without a failed request (every URL
\* that was tried answered 200), their results are equal.
C11_DeterministicSubIndex ==
    (/\ \A p \in Procs :
            /\ pc[p] = "returned" /\ bal[p].err = ""
            /\ obs[p].laps = 1 /\ obs[p].failed = {})
    => bal["p1"].result = bal["p2"].result

\* the data chunks of the buffer, oldest first
DataOf(buffer) == SelectSeq(buffer, LAMBDA c : c.status = "")

\* the segments of the upstream in the order it publishes them
SegmentOrder ==
    <<ResolveReference(BaseOf(ManifestURL), "S1.ts"),
      ResolveReference(BaseOf(ManifestURL), "S2.ts"),
      ResolveReference(BaseOf(ManifestURL), "S3.ts"),
      ResolveReference(BaseOf(ManifestURL), "S4.ts")>>

SegmentNumber(segment) ==
    IF \E n \in DOMAIN SegmentOrder : SegmentOrder[n] = segment
    THEN CHOOSE n \in DOMAIN SegmentOrder : SegmentOrder[n] = segment
    ELSE 0

\* no segment twice, and in the order of the upstream
InOrderOnce(chunks) ==
    \A i, j \in DOMAIN chunks :
        i < j => SegmentNumber(chunks[i].data) < SegmentNumber(chunks[j].data)

\* C12: a writer that started on the playlist of media sequence 10 (S1..S3)
\* and has polled again while the upstream serves media sequence 11
\* (S2..S4), every segment it asked for having answered 200 with a whole
\* body, has relayed no segment twice, and the segments in playlist order.
C12_SegmentsExactlyOnce ==
    (/\ hobs.began = Manifests["seq10"]
     /\ hobs.served = Manifests["seq11"]
     /\ hobs.polls >= 2
     /\ ~hls.lastErr
     /\ \A i \in DOMAIN hobs.fetched : hobs.fetched[i][2] = "relayed")
    => InOrderOnce(DataOf(hls.buffer))

\* C13: a writer in front of a manifest whose media sequence no longer
\* changes returns in the end (with a terminal EOF chunk, once the
\* sequence has stood still for more than TimeoutSeconds + pollInterval).
C13_IdleTimeout ==
    (hls.pc = "select" /\ Successor(up.manifest) = up.manifest)
        ~> (hls.pc = "exited")

\* a master playlist: an EXT-X-STREAM-INF tag followed by a variant URI
IsMasterPlaylist(content) ==
    \E i \in DOMAIN content :
        /\ content[i].tag = "#EXT-X-STREAM-INF"
        /\ i + 1 \in DOMAIN content
        /\ content[i + 1].tag = "uri"

\* C14: once the writer has parsed a master playlist it has returned with a
\* terminal ServerError chunk and has fetched none of the listed URIs.
C14_MasterRejected ==
    (hobs.polls >= 1 /\ IsMasterPlaylist(hobs.parsed))
    => /\ hls.pc = "exited"
       /\ hobs.status = StatusServerError
       /\ hobs.fetched = <<>>

\* C15: in one writer run the header is stored at most once and its gate is
\* closed at most once, both before the first chunk of the run is written;
\* the stored header has no Content-Length; the gate is closed exactly when
\* a header is stored, and no data chunk is in the buffer before that.
C15_HeaderOneShot ==
    /\ hobs.stores <= 1
    /\ hobs.closes <= 1
    /\ hobs.stores = 1 => hobs.writesAtStore = 0
    /\ hls.respHeaderSet = "closed" <=> hls.WriterRespHeader # <<>>
    /\ hls.respHeaderSet = "closed" <=> hobs.stores >= 1
    /\ hls.WriterRespHeader # <<>> =>
           /\ "Content-Length" \notin DOMAIN hls.WriterRespHeader[1]
           /\ HeaderGet(hls.WriterRespHeader[1], "Content-Type") # ""
    /\ DataOf(hls.buffer) # <<>> => hls.respHeaderSet = "closed"

\* the second run of the writer has stored its header and relayed two
\* segments after it
C15_Witness ==
    /\ hobs.run = 2
    /\ hobs.stores = 1
    /\ Len(DataOf(hls.buffer)) >= 2
    /\ hls.WriterRespHeader = <<("Content-Type" :> "video/MP2T")>>

\* C16: in one writer run at most one terminal chunk is written, no chunk
\* is written after it, and the writer has returned once it is written.
C16_TerminalFidelity ==
    /\ hobs.terminals <= 1
    /\ hobs.afterTerminal = 0
    /\ hobs.terminals = 1 =>
           /\ hls.pc = "exited"
           /\ hls.buffer[Len(hls.buffer)] = ErrorChunk(hobs.status)

\* a cancelled writer has written a terminal ServerError chunk after data
C16_Witness ==
    /\ hls.pc = "exited"
    /\ hls.ctxDone
    /\ hobs.status = StatusServerError
    /\ hobs.terminals = 1
    /\ DataOf(hls.buffer) # <<>>

\* C17: the copy goroutine's increment comes before the handler's
\* decrement, and once both have finished the concurrency table is what it
\* was before the request.
C17_CountRestored ==
    /\ ~mp4.decrementedFirst
    /\ (mp4.pc = "returned" /\ mp4.copier \in {"none", "done"})
           => count = mp4.before

\* the sub-index a step of tryStreamUrls takes from the map
Taken(p) == bal[p].todo \ bal'[p].todo

\* C18: a step of tryStreamUrls appends the pair to TestedIndexes exactly
\* when a request for it failed (at construction, in transport, with a nil
\* response or a status other than 200); a pair skipped as tested or at
\* cap, and a pair that answers 200, leave TestedIndexes as they are, and a
\* skipped pair is not requested.
C18_TestedOnlyOnFailure ==
    [][\A p \in Procs :
        /\ pc[p] = "do" =>
              LET key == TestedKey(bal[p].index, bal[p].subIndex)
              IN  /\ pc'[p] = "returned" => session'[p] = session[p]
                  /\ pc'[p] = "urls" => session'[p] = Append(session[p], key)
        /\ pc[p] = "urls" =>
              IF Taken(p) = {}
              THEN session'[p] = session[p]
              ELSE \A subIndex \in Taken(p) :
                   LET key == TestedKey(bal[p].index, subIndex)
                   IN  IF key \in TestedSet(p) \/ CheckConcurrency(bal[p].index)
                       THEN /\ session'[p] = session[p]
                            /\ pc'[p] = "urls"
                            /\ obs'[p].attempts = obs[p].attempts
                       ELSE IF pc'[p] = "do"
                       THEN session'[p] = session[p]
                       ELSE /\ session'[p] = Append(session[p], key)
                            /\ NewRequestFails(inbox[p].Method,
                                   bal[p].Info.URLs[bal[p].index][subIndex])
    ]_vars

\* in one lap a pair was skipped as tested and another failed and was added
C18_Witness ==
    /\ obs["p1"].skipped # {}
    /\ obs["p1"].failed # {}
    /\ Len(session["p1"]) = 2
    /\ pc["p1"] = "urls"

\* C19: from the second poll on the writer parses the manifest the
\* upstream serves at that poll.
C19_ManifestRefetched ==
    hobs.polls >= 2 => hobs.parsed = hobs.served

\* C20: when processSegments has returned for a playlist whose segments
\* answered 200 or another status, every segment of the playlist was
\* fetched, in playlist order.
C20_Non200Skipped ==
    (/\ hls.pc = "select"
     /\ ~hls.ctxDone
     /\ hobs.fetched # <<>>
     /\ \A i \in DOMAIN hobs.fetched :
            hobs.fetched[i][2] \in {"relayed", "non200"})
    => [i \in DOMAIN hobs.fetched |-> hobs.fetched[i][1]] = hls.segments

\* the writer of the coordinator runs
WriterRuns == hls.pc \in {"select", "segments"}

\* C21: the writer holds exactly one slot of its source while it runs and
\* none once it has returned, whichever way it returned (timeout, read or
\* parse error, end of list, cancellation, the coordinator leaving Active):
\* the count is then what it was before the writer started.
C21_SlotReleased ==
    /\ ~WriterRuns => count = others
    /\ WriterRuns =>
           count = [others EXCEPT ![hls.lbResult.Index] = @ + 1]

\* a second writer has returned, because the coordinator left Active
C21_Witness ==
    /\ hls.pc = "exited"
    /\ hobs.run = 2
    /\ hls.state = "Closed"
    /\ count = others

\* C22: a writer that has returned while the coordinator was Active
\* (timeout, error, end of list, cancellation) has published exactly one
\* terminal chunk.
C22_TerminalOnExit ==
    (hls.pc = "exited" /\ hls.state = "Active") => hobs.terminals = 1

\* C23: a writer whose context was cancelled while it fetched segments of
\* a live playlist publishes no terminal status but ClientClosed.
C23_CancelIsClientClosed ==
    (/\ hobs.cancelledAt = "segments"
     /\ ~hls.endlist
     /\ hobs.terminals >= 1)
    => hobs.status = StatusClientClosed

\* the stream ids that do not resolve to a channel with a URL: no such
\* channel, a channel without a source, a channel whose only source has an
\* empty sub-index map
UnresolvableIDs == {"gone", "nosrc", "hollow"}

\* C24: a Balance call for a stream id that does not resolve to a channel
\* with at least one URL runs no lap and issues no request, leaves
\* instance.Info and the result as they were and returns an error; no step
\* of the request changes the session's TestedIndexes or a concurrency
\* counter.
C24_UnresolvableFailsCleanly ==
    /\ [](\A p \in Procs :
            (StreamID(p) \in UnresolvableIDs /\ inbox[p].Method # "") =>
                /\ pc[p] \notin LoopPcs
                /\ obs[p] = InitObs
                /\ bal[p].Info = NoStream
                /\ bal[p].result = NilResult
                /\ pc[p] \in {"returned", "failed"} => bal[p].err # "")
    /\ [][\A p \in Procs :
            StreamID(p) \in UnresolvableIDs =>
                session'[p] = session[p] /\ count' = count]_vars

\* Balance has returned the fetch error for a channel whose only source
\* has an empty sub-index map, the session holding a pair tested earlier
C24_Witness ==
    /\ StreamID("p1") = "hollow"
    /\ pc["p1"] = "returned"
    /\ bal["p1"].err = ErrFetchingSources
    /\ session["p1"] # <<>>

\* C25: when the load balancer tries a pair, and when Balance has
\* returned, no answer it received earlier and did not return is left with
\* an open body.
C25_NoLeakedResponse ==
    \A p \in Procs :
        pc[p] \in {"do", "returned"} => obs[p].unclosed = 0

\* the files of the sorting directory that hold a channel of that name
FilesOf(name) ==
    {filename \in DOMAIN sorter.files :
        sanitizeField(sorter.files[filename].title) = name}

\* C26: after any AddToSorter calls the streams whose titles sanitize to
\* one name are in one file, no call has failed with 'file already
\* exists', and GetSortedEntries gives its callback one entry per name.
C26_OneEntryPerTitle ==
    /\ \A i \in DOMAIN sorter.calls : sorter.calls[i].err # ErrFileExists
    /\ \A title \in Titles :
           Cardinality(FilesOf(sanitizeField(title))) <= 1
    /\ sorter.collected =>
           \A title \in Titles :
               Cardinality({filename \in DOMAIN sorter.delivered :
                   sanitizeField(sorter.delivered[filename].Title)
                       = sanitizeField(title)}) <= 1

\* C27: after AddToSorter(s1) and AddToSorter(s2) for one title, the entry
\* GetSortedEntries gives its callback has the URLs of s1 and s2 (those
\* of s2 for a key of both), so at least one, and the title and the tvg
\* id of s1 where s1 has them.
C27_MergedKeepURLs ==
    (/\ sorter.collected
     /\ Len(sorter.calls) = 2
     /\ sorter.calls[1].stream.Title = sorter.calls[2].stream.Title)
    => LET s1 == sorter.calls[1].stream
           s2 == sorter.calls[2].stream
       IN  \A filename \in DOMAIN sorter.delivered :
               LET entry == sorter.delivered[filename]
               IN  /\ entry.URLs = MergeURLs(s1.URLs, s2.URLs)
                   /\ DOMAIN entry.URLs # {}
                   /\ entry.Title = s1.Title
                   /\ s1.TvgID # "" => entry.TvgID = s1.TvgID

\* C28: EncodeSlug gives a text that is not empty and has none of '+',
\* '/', '='; DecodeSlug of that text succeeds and gives the stream back.
C28_SlugRoundTrip ==
    /\ slug.pc \in {"encoded", "decoded"} =>
           /\ slug.encoded # <<>>
           /\ \A i \in DOMAIN slug.encoded :
                  slug.encoded[i] \notin {"+", "/", "="}
    /\ slug.pc = "decoded" =>
           /\ ~slug.result.err
           /\ slug.result.stream = slug.stream

====
